---- MODULE Spec2Model ----
(***************************************************************************)
(* relis: a CLI tool that extracts values from AMBER MD .lis files         *)
(* (src/src/main.rs).  A line of text is a sequence of one-character       *)
(* strings; a character outside ASCII is written "U+XXXX".                 *)
(***************************************************************************)
EXTENDS Integers, Sequences, FiniteSets, TLC

VARIABLES pc, input, result, files, idx, df, hist, reads, sink, csvCreated, exitCode, message

vars == <<pc, input, result, files, idx, df, hist, reads, sink, csvCreated, exitCode, message>>

(***************************************************************************)
(* Bounds of the model.                                                    *)
(***************************************************************************)
MaxRegionLines == 3
MaxBatchLines == 3
MaxFiles == 2

(***************************************************************************)
(* Characters.                                                             *)
(***************************************************************************)
Upper == {"A","B","C","D","E","F","G","H","I","J","K","L","M",
          "N","O","P","Q","R","S","T","U","V","W","X","Y","Z"}
Lower == {"a","b","c","d","e","f","g","h","i","j","k","l","m",
          "n","o","p","q","r","s","t","u","v","w","x","y","z"}
AsciiDigit == {"0","1","2","3","4","5","6","7","8","9"}
\* Decimal digits outside ASCII (general category Nd), e.g. ARABIC-INDIC DIGIT THREE.
OtherDigit == {"U+0663"}
\* White space: space, tab, and NO-BREAK SPACE (U+00A0).
Space == {" ", "\t", "U+00A0"}

\* The printable ASCII characters in code-point order, from U+0020.
Ascii == <<" ","!","U+0022","#","$","%","&","U+0027","(",")","*","+",",","-",".","/",
           "0","1","2","3","4","5","6","7","8","9",":",";","<","=",">","?",
           "@","A","B","C","D","E","F","G","H","I","J","K","L","M","N","O",
           "P","Q","R","S","T","U","V","W","X","Y","Z","[","U+005C","]","^","_",
           "U+0060","a","b","c","d","e","f","g","h","i","j","k","l","m","n","o",
           "p","q","r","s","t","u","v","w","x","y","z","{","|","}","~">>

\* The code point of a character (Ord for String compares UTF-8 bytes, which
\* orders strings as their code points do).
CodePoint(c) ==
    IF c = "\t" THEN 9
    ELSE IF c = "U+00A0" THEN 160
    ELSE IF c = "U+0663" THEN 1635
    ELSE 31 + (CHOOSE i \in 1..Len(Ascii) : Ascii[i] = c)

\* a < b for strings (BTreeMap<String, _> key order).
RECURSIVE StrLess(_, _)
StrLess(a, b) ==
    IF b = <<>> THEN FALSE
    ELSE IF a = <<>> THEN TRUE
    ELSE IF Head(a) = Head(b) THEN StrLess(Tail(a), Tail(b))
    ELSE CodePoint(Head(a)) < CodePoint(Head(b))

\* str::contains(pat): pat occurs in line as a substring.
Contains(line, pat) ==
    \E i \in 1..(Len(line) - Len(pat) + 1) : SubSeq(line, i, i + Len(pat) - 1) = pat

\* str::trim(): strips leading and trailing white space.
RECURSIVE TrimStart(_)
TrimStart(s) ==
    IF s # <<>> /\ Head(s) \in Space THEN TrimStart(Tail(s)) ELSE s

RECURSIVE TrimEnd(_)
TrimEnd(s) ==
    IF s # <<>> /\ s[Len(s)] \in Space THEN TrimEnd(SubSeq(s, 1, Len(s) - 1)) ELSE s

Trim(s) == TrimEnd(TrimStart(s))

(***************************************************************************)
(* Result<T, Box<dyn Error>>.                                              *)
(***************************************************************************)
Ok(v) == [ok |-> TRUE, val |-> v]
Err(e) == [ok |-> FALSE, err |-> e]

(***************************************************************************)
(* read_lines_until_pattern (main.rs 126-144).                             *)
(* A file is [openable, content]; content is the sequence of what          *)
(* reader.lines() yields: a line, or IoErr for a line that cannot be read  *)
(* (invalid UTF-8).                                                        *)
(***************************************************************************)
IoErr == <<"<io error>">>

PatternStart == <<"R","E","S","U","L","T","S">>
PatternEnd == <<"A"," ","V"," ","E"," ","R"," ","A"," ","G"," ","E">>

\* The for loop of lines 131-142 from line i on, with the locals start and lines.
RECURSIVE ScanLines(_, _, _, _, _, _)
ScanLines(content, i, start, lines, pattern_start, pattern_end) ==
    IF i > Len(content) THEN Ok(lines)
    ELSE LET line == content[i]
             start1 == start \/ Contains(line, pattern_start)
         IN  IF line = IoErr THEN Err("io")
             ELSE IF Contains(line, pattern_end) THEN Ok(lines)
             ELSE ScanLines(content, i + 1, start1,
                            IF start1 THEN Append(lines, line) ELSE lines,
                            pattern_start, pattern_end)

read_lines_until_pattern(file, pattern_start, pattern_end) ==
    IF ~file.openable THEN Err("io")
    ELSE ScanLines(file.content, 1, FALSE, <<>>, pattern_start, pattern_end)

(***************************************************************************)
(* f64.  A value is num / 10^exp with no trailing zero in the fraction,    *)
(* so that "1", "1." and "1.0" parse to the same value.  The digit strings *)
(* of the model are short: every value is exact in binary64 as far as the  *)
(* comparisons made here can tell.                                         *)
(***************************************************************************)
RECURSIVE Pow10(_)
Pow10(n) == IF n = 0 THEN 1 ELSE 10 * Pow10(n - 1)

RECURSIVE Normalize(_)
Normalize(x) ==
    IF x.exp > 0 /\ x.num % 10 = 0
    THEN Normalize([num |-> x.num \div 10, exp |-> x.exp - 1])
    ELSE x

\* a <= b on f64 values.
FloatLeq(a, b) == a.num * Pow10(b.exp) <= b.num * Pow10(a.exp)

RECURSIVE DigitsValue(_, _)
DigitsValue(s, acc) ==
    IF s = <<>> THEN acc
    ELSE DigitsValue(Tail(s), 10 * acc + (CodePoint(Head(s)) - 48))

\* str::parse::<f64>() on sign? digits* ('.' digits*)? with at least one digit;
\* the decimal digits it accepts are the ASCII ones.
ParseF64(s) ==
    LET neg == s # <<>> /\ Head(s) = "-"
        body == IF s # <<>> /\ Head(s) \in {"-", "+"} THEN Tail(s) ELSE s
        dots == {i \in 1..Len(body) : body[i] = "."}
        dot == IF dots = {} THEN Len(body) + 1
               ELSE CHOOSE i \in dots : \A j \in dots : i <= j
        ip == SubSeq(body, 1, dot - 1)
        fp == SubSeq(body, dot + 1, Len(body))
        digits == ip \o fp
        valid == /\ digits # <<>>
                 /\ \A i \in 1..Len(digits) : digits[i] \in AsciiDigit
        mag == DigitsValue(digits, 0)
    IN  IF ~valid THEN Err("parse float")
        ELSE Ok(Normalize([num |-> IF neg THEN 0 - mag ELSE mag, exp |-> Len(fp)]))

\* The regex of extract_values (main.rs 153),
\*     ([1\-4\s]*[A-Za-z]+[\(A-Z)]*)\s+=\s+([-]?\d+[\.]?\d*)
\* as the sequence of its pieces, each a character class with a greedy
\* quantifier: opt (may be absent) and many (may repeat).  \d and \s are the
\* Unicode classes.
Digit == AsciiDigit \cup OtherDigit

Pieces ==
    << [cls |-> {"1", "-", "4"} \cup Space, opt |-> TRUE,  many |-> TRUE],
       [cls |-> Upper \cup Lower,           opt |-> FALSE, many |-> TRUE],
       [cls |-> {"(", ")"} \cup Upper,      opt |-> TRUE,  many |-> TRUE],
       [cls |-> Space,                      opt |-> FALSE, many |-> TRUE],
       [cls |-> {"="},                      opt |-> FALSE, many |-> FALSE],
       [cls |-> Space,                      opt |-> FALSE, many |-> TRUE],
       [cls |-> {"-"},                      opt |-> TRUE,  many |-> FALSE],
       [cls |-> Digit,                      opt |-> FALSE, many |-> TRUE],
       [cls |-> {"."},                      opt |-> TRUE,  many |-> FALSE],
       [cls |-> Digit,                      opt |-> TRUE,  many |-> TRUE] >>

\* The pieces that end capture group 1, precede group 2 and end group 2.
LabelEnd == 3
ValueBefore == 6
ValueEnd == 10

\* How many characters of cls follow from position pos.
RECURSIVE Run(_, _, _)
Run(line, pos, cls) ==
    IF pos <= Len(line) /\ line[pos] \in cls THEN 1 + Run(line, pos + 1, cls) ELSE 0

\* Leftmost-first matching: piece p takes as many characters as it can and
\* gives one back at a time until the rest matches.  The result is
\* [m, ends]: whether pieces p.. match at pos, and the position after each.
RECURSIVE MatchPieces(_, _, _)
RECURSIVE TryCount(_, _, _, _)
TryCount(line, pos, p, k) ==
    IF k < (IF Pieces[p].opt THEN 0 ELSE 1) THEN [m |-> FALSE, ends |-> <<>>]
    ELSE LET r == MatchPieces(line, pos + k, p + 1)
         IN  IF r.m THEN [m |-> TRUE, ends |-> <<pos + k>> \o r.ends]
             ELSE TryCount(line, pos, p, k - 1)

MatchPieces(line, pos, p) ==
    IF p > Len(Pieces) THEN [m |-> TRUE, ends |-> <<>>]
    ELSE LET n == Run(line, pos, Pieces[p].cls)
         IN  TryCount(line, pos, p, IF Pieces[p].many \/ n = 0 THEN n ELSE 1)

\* Regex::captures_iter: the successive non-overlapping matches from position
\* from on, each as [label, value]: the texts of groups 1 and 2.
RECURSIVE CapturesIter(_, _)
CapturesIter(line, from) ==
    LET starts == {s \in from..Len(line) : MatchPieces(line, s, 1).m}
    IN  IF starts = {} THEN <<>>
        ELSE LET s == CHOOSE x \in starts : \A y \in starts : x <= y
                 e == MatchPieces(line, s, 1).ends
             IN  <<[label |-> SubSeq(line, s, e[LabelEnd] - 1),
                    value |-> SubSeq(line, e[ValueBefore], e[ValueEnd] - 1)]>>
                 \o CapturesIter(line, e[ValueEnd])

(***************************************************************************)
(* BTreeMap<String, Vec<f64>>: the entries [key, vals] in key order.       *)
(***************************************************************************)
\* A faulty variant of EntryPush: the value goes to the front of the series.
EntryPushFront(data, t, v) ==
    IF \E i \in 1..Len(data) : data[i].key = t
    THEN [i \in 1..Len(data) |->
             IF data[i].key = t
             THEN [key |-> t, vals |-> <<v>> \o data[i].vals]
             ELSE data[i]]
    ELSE LET n == Cardinality({i \in 1..Len(data) : StrLess(data[i].key, t)})
         IN  SubSeq(data, 1, n) \o <<[key |-> t, vals |-> <<v>>]>>
             \o SubSeq(data, n + 1, Len(data))

\* data.entry(t).or_insert(Vec::new()).push(v)
EntryPush(data, t, v) ==
    IF \E i \in 1..Len(data) : data[i].key = t
    THEN [i \in 1..Len(data) |->
             IF data[i].key = t
             THEN [key |-> t, vals |-> Append(data[i].vals, v)]
             ELSE data[i]]
    ELSE LET n == Cardinality({i \in 1..Len(data) : StrLess(data[i].key, t)})
         IN  SubSeq(data, 1, n) \o <<[key |-> t, vals |-> <<v>>]>>
             \o SubSeq(data, n + 1, Len(data))

(***************************************************************************)
(* extract_values (main.rs 149-167).                                       *)
(***************************************************************************)
KE == <<"K","E">>
err == <<"e","r","r">>

\* A faulty variant of Excluded: only "KE" excludes a line.
ExcludedKeOnly(line) == Contains(line, KE)

\* The test of line 157.
Excluded(line) == Contains(line, KE) \/ Contains(line, err)

\* A faulty variant of ExtractCaps: a value that does not parse is dropped.
RECURSIVE ExtractCapsDrop(_, _, _, _)
ExtractCapsDrop(data, line, caps, i) ==
    IF i > Len(caps) THEN Ok(data)
    ELSE IF Excluded(line) \/ ~ParseF64(caps[i].value).ok
    THEN ExtractCapsDrop(data, line, caps, i + 1)
    ELSE ExtractCapsDrop(EntryPush(data, Trim(caps[i].label), ParseF64(caps[i].value).val),
                         line, caps, i + 1)

\* The inner loop (lines 156-164) from capture i of the line on.
RECURSIVE ExtractCaps(_, _, _, _)
ExtractCaps(data, line, caps, i) ==
    IF i > Len(caps) THEN Ok(data)
    ELSE IF Excluded(line) THEN ExtractCaps(data, line, caps, i + 1)
    ELSE LET t == Trim(caps[i].label)
             v == ParseF64(caps[i].value)
         IN  IF ~v.ok THEN v
             ELSE ExtractCaps(EntryPush(data, t, v.val), line, caps, i + 1)

\* The outer loop (lines 155-165) from line i on.
RECURSIVE ExtractLines(_, _, _)
ExtractLines(data, lines, i) ==
    IF i > Len(lines) THEN Ok(data)
    ELSE LET r == ExtractCaps(data, lines[i], CapturesIter(lines[i], 1), 1)
         IN  IF ~r.ok THEN r ELSE ExtractLines(r.val, lines, i + 1)

extract_values(lines) == ExtractLines(<<>>, lines, 1)

(***************************************************************************)
(* polars DataFrame, as extract_all_values uses it: the columns in order,  *)
(* each a Series [name, vals].                                             *)
(***************************************************************************)
\* DataFrame::new::<Series>(vec![])
EmptyFrame == <<>>

Width(t) == Len(t)
Height(t) == IF t = <<>> THEN 0 ELSE Len(t[1].vals)
\* DataFrame::get_column_names
Names(t) == [i \in 1..Len(t) |-> t[i].name]
HasColumn(t, name) == \E i \in 1..Len(t) : t[i].name = name
\* DataFrame::column(name), for a column that exists.
Column(t, name) == t[CHOOSE i \in 1..Len(t) : t[i].name = name]

\* DataFrame::is_empty (line 42)
IsEmpty(t) == Height(t) = 0

\* Series::new(&key, values) (line 36)
SeriesNew(key, values) == [name |-> key, vals |-> values]

RECURSIVE Repeat(_, _)
Repeat(v, n) == IF n = 0 THEN <<>> ELSE <<v>> \o Repeat(v, n - 1)

\* DataFrame::with_column (line 37): a series of length 1 is broadcast to the
\* height of the frame; a series of the frame's height, or any series when
\* the frame is empty, is added (replacing a column of the same name);
\* anything else is a shape error.
with_column(t, s) ==
    LET height == Height(t)
        s1 == IF Len(s.vals) = 1 /\ height > 1
              THEN [name |-> s.name, vals |-> Repeat(s.vals[1], height)]
              ELSE s
    IN  IF Len(s1.vals) = height \/ IsEmpty(t)
        THEN Ok(IF HasColumn(t, s1.name)
                THEN [i \in 1..Len(t) |-> IF t[i].name = s1.name THEN s1 ELSE t[i]]
                ELSE Append(t, s1))
        ELSE Err("shape mismatch")

\* DataFrame::vstack (line 39): a frame without columns takes the other's
\* columns; otherwise the widths and the column names, position by position,
\* must agree, and each column is extended by the other's.
vstack(t, other) ==
    IF Width(t) # Width(other)
    THEN IF Width(t) = 0 THEN Ok(other) ELSE Err("shape mismatch")
    ELSE IF \E i \in 1..Len(t) : t[i].name # other[i].name
    THEN Err("column names don't match")
    ELSE Ok([i \in 1..Len(t) |->
                [name |-> t[i].name, vals |-> t[i].vals \o other[i].vals]])

\* DataFrame::select (line 52), for distinct names that exist.
Select(t, names) == [i \in 1..Len(names) |-> Column(t, names[i])]

\* The rows p[1], p[2], ... of t.
Take(t, p) ==
    [i \in 1..Len(t) |->
        [name |-> t[i].name, vals |-> [j \in 1..Len(p) |-> t[i].vals[p[j]]]]]

\* The order of a sort: ascending unless descending.
InOrder(a, b, descending) == IF descending THEN FloatLeq(b, a) ELSE FloatLeq(a, b)

\* Row r inserted into the sorted row list s, at any place that keeps it
\* sorted: the sort does not promise the order of rows with equal keys.
InsertOutcomes(s, r, key, descending) ==
    { SubSeq(s, 1, j) \o <<r>> \o SubSeq(s, j + 1, Len(s)) :
        j \in { k \in 0..Len(s) :
                  /\ \A i \in 1..k : InOrder(key[s[i]], key[r], descending)
                  /\ \A i \in (k + 1)..Len(s) : InOrder(key[r], key[s[i]], descending) } }

RECURSIVE ArgSortOutcomes(_, _, _)
ArgSortOutcomes(n, key, descending) ==
    IF n = 0 THEN {<<>>}
    ELSE UNION { InsertOutcomes(s, n, key, descending) :
                   s \in ArgSortOutcomes(n - 1, key, descending) }

\* DataFrame::sort_in_place([by], descending) (line 53): the frames it may leave.
sort_in_place(t, by, descending) ==
    { Take(t, p) : p \in ArgSortOutcomes(Height(t), Column(t, by).vals, descending) }

(***************************************************************************)
(* extract_all_values (main.rs 24-69).                                     *)
(***************************************************************************)
TimeColumn == <<"T","I","M","E","(","P","S",")">>

\* A faulty variant of Descending: the sort is descending.
DescendingTrue == TRUE

\* The second argument of sort_in_place (line 53).
Descending == FALSE

\* A faulty variant of AddColumns: the result of with_column is not looked at, and a
\* series it rejects is left out.
RECURSIVE AddColumnsUnchecked(_, _, _)
AddColumnsUnchecked(temp_df, data, i) ==
    IF i > Len(data) THEN Ok(temp_df)
    ELSE IF with_column(temp_df, SeriesNew(data[i].key, data[i].vals)).ok
    THEN AddColumnsUnchecked(with_column(temp_df, SeriesNew(data[i].key, data[i].vals)).val,
                             data, i + 1)
    ELSE AddColumnsUnchecked(temp_df, data, i + 1)

\* Lines 33-38: one column per key/values pair, in key order, from entry i on.
RECURSIVE AddColumns(_, _, _)
AddColumns(temp_df, data, i) ==
    IF i > Len(data) THEN Ok(temp_df)
    ELSE LET r == with_column(temp_df, SeriesNew(data[i].key, data[i].vals))
         IN  IF ~r.ok THEN r ELSE AddColumns(r.val, data, i + 1)

ToTable(data) == AddColumns(EmptyFrame, data, 1)

NotReached == Err("not reached")

\* The steps of the loop body (lines 31-39), each on the result of the one
\* before: NotReached after a failed one.
ExtractOf(lines) == IF lines.ok THEN extract_values(lines.val) ELSE NotReached
TableOf(data) == IF data.ok THEN ToTable(data.val) ELSE NotReached
StackOf(acc, temp) == IF temp.ok THEN vstack(acc, temp.val) ELSE NotReached

OutcomeOfTable(lines, data, temp, acc) ==
    [lines |-> lines, data |-> data, temp |-> temp, stack |-> StackOf(acc, temp)]
OutcomeOfData(lines, data, acc) == OutcomeOfTable(lines, data, TableOf(data), acc)
OutcomeOfLines(lines, acc) == OutcomeOfData(lines, ExtractOf(lines), acc)

\* The body of the loop (lines 30-39) for one file, with acc the frame so far:
\* the result of each step.
FileOutcome(file, acc) ==
    OutcomeOfLines(read_lines_until_pattern(file, PatternStart, PatternEnd), acc)

\* A faulty variant of AfterFile: a file that fails is skipped and the loop goes on.
AfterFileSkip(o, acc) ==
    IF o.stack.ok
    THEN [pc |-> "loop", df |-> o.stack.val, exitCode |-> -1, message |-> "Reading file"]
    ELSE [pc |-> "loop", df |-> acc, exitCode |-> -1, message |-> "Reading file"]

\* The ? operators of lines 32, 37 and 39: an error leaves the function (and
\* main, with exit code 1); otherwise df is the stacked frame and the loop
\* goes on.
AfterFile(o, acc) ==
    IF o.stack.ok
    THEN [pc |-> "loop", df |-> o.stack.val, exitCode |-> -1, message |-> "Reading file"]
    ELSE [pc |-> "done", df |-> acc, exitCode |-> 1, message |-> "Error"]

\* A faulty variant of ColumnOrder: TIME(PS) changes places with the first name.
ColumnOrderSwap(col) ==
    IF \E i \in 1..Len(col) : col[i] = TimeColumn
    THEN LET pos == CHOOSE i \in 1..Len(col) : col[i] = TimeColumn
         IN  [i \in 1..Len(col) |->
                 IF i = 1 THEN col[pos] ELSE IF i = pos THEN col[1] ELSE col[i]]
    ELSE col

\* Lines 48-51: TIME(PS), when present, first; the other names as they were.
ColumnOrder(col) ==
    IF \E i \in 1..Len(col) : col[i] = TimeColumn
    THEN LET pos == CHOOSE i \in 1..Len(col) :
                        col[i] = TimeColumn /\ \A j \in 1..(i - 1) : col[j] # TimeColumn
         IN  <<TimeColumn>> \o SubSeq(col, 1, pos - 1) \o SubSeq(col, pos + 1, Len(col))
    ELSE col

\* A faulty variant of NoData: the test of line 42 is left out.
NoDataNever(t) == FALSE

\* The test of line 42: there is nothing to save.
NoData(t) == IsEmpty(t)

\* Lines 48-54: the frames that may be handed to the CsvWriter.
Prepare(t) ==
    IF HasColumn(t, TimeColumn)
    THEN sort_in_place(Select(t, ColumnOrder(Names(t))), TimeColumn, Descending)
    ELSE {t}

(***************************************************************************)
(* The lines and files the model reads.                                    *)
(***************************************************************************)
LnResults == <<" "," "," ","4","."," "," ","R","E","S","U","L","T","S">>
LnAverages == <<" ","A"," ","V"," ","E"," ","R"," ","A"," ","G"," ","E"," ","S">>
LnBoth == <<"R","E","S","U","L","T","S"," ","A"," ","V"," ","E"," ","R"," ","A"," ","G","E">>
LnTemp == <<"T","E","M","P","(","K",")"," ","="," ","3","0","0",".","5">>
LnTime == <<"T","I","M","E","(","P","S",")"," ","="," ","1",".","0">>
LnFrame2 == <<"T","I","M","E","(","P","S",")"," ","="," ","2",".","0"," "," ","T","E","M","P","(","K",")"," ","="," ","3","0","1",".","0">>
LnFrame1 == <<"T","I","M","E","(","P","S",")"," ","="," ","1"," "," ","T","E","M","P","(","K",")"," ","="," ","2","9","9">>
LnTemp300 == <<"T","E","M","P","(","K",")"," ","="," ","3","0","0">>
LnPress2 == <<"P","R","E","S","S"," ","="," ","2">>
LnPressNeg == <<"P","R","E","S","S"," ","="," ","-","1",".","5">>
LnPress3 == <<"P","R","E","S","S"," ","="," ","3">>
LnVolume7 == <<"V","O","L","U","M","E"," ","="," ","7">>
LnVolume8 == <<"V","O","L","U","M","E"," ","="," ","8">>
LnPressVol1 == <<"P","R","E","S","S"," ","="," ","1"," ","V","O","L","U","M","E"," ","="," ","7">>
LnPressVol2 == <<"P","R","E","S","S"," ","="," ","2"," ","V","O","L","U","M","E"," ","="," ","8">>
LnEke == <<"E","K","E"," ","="," ","5",".","0"," ","T","E","M","P","(","K",")"," ","="," ","3","0","0",".","0">>
LnValArabic == <<"V","A","L"," ","="," ","U+0663">>
LnVal123 == <<"V","A","L"," ","="," ","1",".","2",".","3">>
LnValSpaced == <<" ","V","A","L"," "," ","="," "," ","2",".">>
LnNbTerr == <<"1","-","4"," ","N","B"," ","="," ","-","2",".","5","0"," "," ","T","e","r","r"," ","="," ","9">>
LnNbVal == <<" ","1","-","4"," ","N","B"," ","="," ","4"," ","V","A","L"," ","="," ","1">>
LnTimeTemp == <<"T","I","M","E","(","P","S",")"," ","="," ","3"," ","T","E","M","P","(","K",")"," ","="," ","1">>
LnKeArabic == <<"K","E"," ","="," ","U+0663">>

File(content) == [openable |-> TRUE, content |-> content]
\* A file that cannot be opened.
FileUnopenable == [openable |-> FALSE, content |-> <<>>]

\* One frame, the temperature line before the time line.
FileA == File(<<LnResults, LnTemp, LnTime, LnAverages>>)
\* Two frames, the later first; a line after the end marker.
FileB == File(<<LnResults, LnFrame2, LnFrame1, LnAverages, LnTemp300>>)
\* Four columns, the time column third in key order.
FileWide == File(<<LnResults, LnTimeTemp, LnPressVol1, LnAverages>>)
\* No time column.
FileC == File(<<LnResults, LnPress2, LnPressNeg, LnAverages>>)
FileC2 == File(<<LnResults, LnPress3>>)
\* Series of unequal lengths: PRESS twice and VOLUME once, PRESS three times
\* and VOLUME twice, PRESS once and VOLUME twice.
FileRagged21 == File(<<LnResults, LnPress2, LnPressVol1, LnAverages>>)
FileRagged32 == File(<<LnResults, LnPressVol1, LnPressVol2, LnPress3, LnAverages>>)
FileRagged12 == File(<<LnResults, LnPressVol1, LnVolume8, LnAverages>>)
\* Nothing to extract: only an excluded line; no start marker.
FileExcluded == File(<<LnResults, LnEke, LnAverages>>)
FileNoMarker == File(<<LnTemp, LnTime>>)
\* A value the regex matches and parse::<f64> rejects.
FileArabic == File(<<LnResults, LnValArabic, LnAverages>>)
FileVal123 == File(<<LnResults, LnVal123, LnAverages>>)
\* A line that cannot be read.
FileIoErr == File(<<LnResults, LnTemp, IoErr, LnAverages>>)

FilePool == {FileA, FileB, FileWide, FileC, FileC2, FileRagged21, FileRagged32, FileRagged12,
             FileExcluded, FileNoMarker, FileArabic, FileVal123, FileIoErr,
             FileUnopenable}

RegionLinePool == {LnResults, LnAverages, LnBoth, LnTemp, LnTime, IoErr}

BatchLinePool == {LnTemp, LnFrame2, LnEke, LnVal123, LnValArabic, LnValSpaced,
                  LnNbTerr, LnNbVal, LnKeArabic, LnResults}

\* The sequences over S of length at most n.
SeqsUpTo(S, n) == UNION { [1..k -> S] : k \in 0..n }

(***************************************************************************)
(* The run of extract_all_values over the files list_files found.          *)
(* hist records, for each file read, the outcome of each step of the loop  *)
(* body; sink is the frame handed to the CsvWriter.                        *)
(***************************************************************************)
Init ==
    /\ files \in SeqsUpTo(FilePool, MaxFiles)
    /\ pc = "loop"
    /\ idx = 0
    /\ df = EmptyFrame
    /\ hist = <<>>
    /\ reads = 0
    /\ sink = EmptyFrame
    /\ csvCreated = FALSE
    /\ exitCode = -1
    /\ message = "Files found"
    /\ input = <<>>
    /\ result = NotReached

\* One iteration of the loop of lines 29-40.
ProcessFile ==
    /\ pc = "loop"
    /\ idx < Len(files)
    /\ \E o \in {FileOutcome(files[idx + 1], df)} :
       \E a \in {AfterFile(o, df)} :
           /\ hist' = Append(hist, o)
           /\ reads' = reads + 1
           /\ idx' = idx + 1
           /\ pc' = a.pc
           /\ df' = a.df
           /\ exitCode' = a.exitCode
           /\ message' = a.message
    /\ UNCHANGED <<files, sink, csvCreated, input, result>>

\* Lines 42-45.
ExitNoData ==
    /\ pc = "loop"
    /\ idx = Len(files)
    /\ NoData(df)
    /\ pc' = "done"
    /\ message' = "No data found."
    /\ exitCode' = 0
    /\ UNCHANGED <<files, idx, df, hist, reads, sink, csvCreated, input, result>>

\* Lines 46-68: order the columns, sort, create the file and write it; the
\* creation and the writing may fail.  The statistics printed afterwards
\* change nothing.
Save ==
    /\ pc = "loop"
    /\ idx = Len(files)
    /\ ~NoData(df)
    /\ \E t \in Prepare(df), createOk \in BOOLEAN, writeOk \in BOOLEAN :
          /\ df' = t
          /\ csvCreated' = createOk
          /\ sink' = IF createOk THEN t ELSE sink
          /\ exitCode' = IF createOk /\ writeOk THEN 0 ELSE 1
          /\ message' = IF createOk /\ writeOk THEN "Data saved" ELSE "Error"
    /\ pc' = "done"
    /\ UNCHANGED <<files, idx, hist, reads, input, result>>

Next == ProcessFile \/ ExitNoData \/ Save

Spec == Init /\ [][Next]_vars

(***************************************************************************)
(* read_lines_until_pattern alone, on every short file.                    *)
(***************************************************************************)
Idle ==
    /\ files = <<>>
    /\ idx = 0
    /\ df = EmptyFrame
    /\ hist = <<>>
    /\ reads = 0
    /\ sink = EmptyFrame
    /\ csvCreated = FALSE
    /\ exitCode = -1
    /\ message = ""

InitRegion ==
    /\ input \in {FileUnopenable} \cup { File(c) : c \in SeqsUpTo(RegionLinePool, MaxRegionLines) }
    /\ result = NotReached
    /\ pc = "call"
    /\ Idle

ReadLines ==
    /\ pc = "call"
    /\ result' = read_lines_until_pattern(input, PatternStart, PatternEnd)
    /\ pc' = "ret"
    /\ UNCHANGED <<input, files, idx, df, hist, reads, sink, csvCreated, exitCode, message>>

NextRegion == ReadLines

SpecRegion == InitRegion /\ [][NextRegion]_vars

(***************************************************************************)
(* extract_values alone, on every short batch of lines.                    *)
(***************************************************************************)
InitExtract ==
    /\ input \in SeqsUpTo(BatchLinePool, MaxBatchLines)
    /\ result = NotReached
    /\ pc = "call"
    /\ Idle

ExtractValues ==
    /\ pc = "call"
    /\ result' = extract_values(input)
    /\ pc' = "ret"
    /\ UNCHANGED <<input, files, idx, df, hist, reads, sink, csvCreated, exitCode, message>>

NextExtract == ExtractValues

SpecExtract == InitExtract /\ [][NextExtract]_vars

(***************************************************************************)
(* Properties of read_lines_until_pattern (SpecRegion).                    *)
(***************************************************************************)
IsStart(line) == Contains(line, PatternStart)
IsEnd(line) == Contains(line, PatternEnd)
Readable(file) == file.openable /\ \A i \in 1..Len(file.content) : file.content[i] # IoErr

\* The first line with the start marker, and the first line after line s with
\* the end marker (0: none).
FirstStart(c) ==
    IF \E i \in 1..Len(c) : IsStart(c[i])
    THEN CHOOSE i \in 1..Len(c) : IsStart(c[i]) /\ \A j \in 1..(i - 1) : ~IsStart(c[j])
    ELSE 0
FirstEndAfter(c, s) ==
    IF \E i \in (s + 1)..Len(c) : IsEnd(c[i])
    THEN CHOOSE i \in (s + 1)..Len(c) : IsEnd(c[i]) /\ \A j \in (s + 1)..(i - 1) : ~IsEnd(c[j])
    ELSE 0

\* A start-marker line followed later by an end-marker line.
HasRegion(c) == FirstStart(c) # 0 /\ FirstEndAfter(c, FirstStart(c)) # 0

\* The lines strictly between the first start-marker line and the first
\* end-marker line after it.
StrictlyBetween(c) == SubSeq(c, FirstStart(c) + 1, FirstEndAfter(c, FirstStart(c)) - 1)

\* C1: for every readable file with a start-marker line followed later by an
\* end-marker line, read_lines_until_pattern returns exactly the lines strictly
\* between the first start-marker line and the first end-marker line after it:
\* neither marker line nor any line after the end marker is in the result.
C1_StrictlyBetween ==
    (pc = "ret" /\ Readable(input) /\ HasRegion(input.content))
        => result = Ok(StrictlyBetween(input.content))

\* No line from the first start-marker line on contains the end marker: the
\* end marker never appears, or appears only before the start marker.
NoEndFromStart(c) ==
    \A i \in 1..Len(c) : IsEnd(c[i]) => (FirstStart(c) # 0 /\ i < FirstStart(c))

\* C2: when the end marker appears only before the first start-marker line, or
\* never, the scan runs to the end of the input and the result is everything
\* from the start marker onward (with or without the marker line itself); an
\* end-marker line before the start marker neither stops the scan nor empties
\* the result.
C2_EndBeforeStartIgnored ==
    (pc = "ret" /\ Readable(input) /\ NoEndFromStart(input.content))
        => /\ result.ok
           /\ IF FirstStart(input.content) = 0 THEN result.val = <<>>
              ELSE result.val \in
                     { SubSeq(input.content, FirstStart(input.content), Len(input.content)),
                       SubSeq(input.content, FirstStart(input.content) + 1, Len(input.content)) }

(***************************************************************************)
(* Properties of extract_values (SpecExtract).                             *)
(***************************************************************************)
KeyTemp == <<"T","E","M","P","(","K",")">>
KeyVal == <<"V","A","L">>
KeyNb == <<"1","-","4"," ","N","B">>

\* A line with the substring "KE" or "err".
Noise(line) ==
    \/ \E i \in 1..(Len(line) - 1) : line[i] = "K" /\ line[i + 1] = "E"
    \/ \E i \in 1..(Len(line) - 2) : line[i] = "e" /\ line[i + 1] = "r" /\ line[i + 2] = "r"

WithoutNoise(lines) == SelectSeq(lines, LAMBDA l : ~Noise(l))

\* C4: a line that contains "KE" or "err" yields no pair: the result (the
\* mapping, or the failure) is what it is with those lines removed from the
\* input, and a batch of such lines alone yields the empty mapping, whatever
\* label/value pairs the lines hold.
C4_NoiseLinesSkipped ==
    pc = "ret" =>
        /\ result = extract_values(WithoutNoise(input))
        /\ (\A i \in 1..Len(input) : Noise(input[i])) => result = Ok(<<>>)

\* "EKE = 5.0 TEMP(K) = 300.0" after "TEMP(K) = 300.5" has added nothing to TEMP(K).
C4_Witness ==
    /\ pc = "ret"
    /\ input = <<LnTemp, LnEke>>
    /\ result = Ok(<<[key |-> KeyTemp, vals |-> <<[num |-> 3005, exp |-> 1]>>]>>)

\* The label/value pairs of the lines in encounter order (line by line, left
\* to right), each with its trimmed label and its value.
RECURSIVE PairsOf(_)
PairsOf(lines) ==
    IF lines = <<>> THEN <<>>
    ELSE [i \in 1..Len(CapturesIter(Head(lines), 1)) |->
             [key |-> Trim(CapturesIter(Head(lines), 1)[i].label),
              val |-> ParseF64(CapturesIter(Head(lines), 1)[i].value).val]]
         \o PairsOf(Tail(lines))

ValuesOfKey(pairs, k) ==
    [i \in 1..Len(SelectSeq(pairs, LAMBDA q : q.key = k)) |->
        SelectSeq(pairs, LAMBDA q : q.key = k)[i].val]

MappingIs(data, pairs) ==
    /\ {data[i].key : i \in 1..Len(data)} = {pairs[i].key : i \in 1..Len(pairs)}
    /\ \A i, j \in 1..Len(data) : data[i].key = data[j].key => i = j
    /\ \A i \in 1..Len(data) :
          /\ data[i].vals = ValuesOfKey(pairs, data[i].key)
          /\ data[i].vals # <<>>
          /\ data[i].key = Trim(data[i].key)

\* C10: for a batch without excluded lines, the mapping extract_values returns
\* holds, for each trimmed label, exactly the values of that label's matches
\* in encounter order (line order, then left to right); every pair of a line
\* is extracted, captures that trim to the same text share one key, and no
\* key has an empty series.  E.g. " 1-4 NB = 4 VAL = 1" then " VAL  =  2."
\* give 1-4 NB -> [4] and VAL -> [1, 2].
C10_SeriesInEncounterOrder ==
    (pc = "ret" /\ result.ok /\ \A i \in 1..Len(input) : ~Noise(input[i]))
        => /\ MappingIs(result.val, PairsOf(input))
           /\ input = <<LnNbVal, LnValSpaced>> =>
                 result.val = << [key |-> KeyNb, vals |-> <<[num |-> 4, exp |-> 0]>>],
                                 [key |-> KeyVal, vals |-> <<[num |-> 1, exp |-> 0],
                                                             [num |-> 2, exp |-> 0]>>] >>

C10_Witness ==
    /\ pc = "ret"
    /\ input = <<LnNbVal, LnValSpaced>>
    /\ result.ok
    /\ Len(result.val) = 2

(***************************************************************************)
(* Properties of the run (Spec).                                           *)
(***************************************************************************)
\* The run ended at file i with an error: nothing was read after it and the
\* summary file was not created.
AbortedAt(i) ==
    /\ i = Len(hist)
    /\ reads = i
    /\ pc = "done"
    /\ exitCode \notin {0, -1}
    /\ message = "Error"
    /\ ~csvCreated
    /\ sink = EmptyFrame

InLines(lines, line) == \E i \in 1..Len(lines) : lines[i] = line

\* Some pair of a line that is not excluded has a value that does not parse.
UnparsableCapture(lines) ==
    \E i \in 1..Len(lines) :
        /\ ~Noise(lines[i])
        /\ \E j \in 1..Len(CapturesIter(lines[i], 1)) :
               ~ParseF64(CapturesIter(lines[i], 1)[j].value).ok

HasValue(data, k, v) ==
    \E i \in 1..Len(data) :
        data[i].key = k /\ \E j \in 1..Len(data[i].vals) : data[i].vals[j] = v

\* A value the regex matches and that does not parse makes extract_values
\* fail with the parse error, and the run abort with a non-zero exit code.
C3_ParseFailureAborts ==
    \A i \in 1..Len(hist) :
        (hist[i].lines.ok /\ UnparsableCapture(hist[i].lines.val))
            => hist[i].data = Err("parse float") /\ AbortedAt(i)

\* C3 as stated: moreover a region line "VAL = 1.2.3" aborts the run and
\* contributes no value to VAL.
C3_Val123Aborts ==
    /\ C3_ParseFailureAborts
    /\ \A i \in 1..Len(hist) :
          (hist[i].lines.ok /\ InLines(hist[i].lines.val, LnVal123))
              => ~hist[i].data.ok /\ AbortedAt(i)

\* C3 (amended): a matched value that does not parse (a decimal digit outside
\* ASCII, which \d matches) makes extract_values fail and the run abort with
\* the parse error and a non-zero exit code; "VAL = 1.2.3" is not such a value:
\* the regex captures "1.2", which parses, and the line contributes 1.2 to VAL.
C3_Val123Contributes ==
    /\ C3_ParseFailureAborts
    /\ \A i \in 1..Len(hist) :
          (/\ hist[i].lines.ok
           /\ InLines(hist[i].lines.val, LnVal123)
           /\ ~UnparsableCapture(hist[i].lines.val))
              => /\ hist[i].data.ok
                 /\ HasValue(hist[i].data.val, KeyVal, [num |-> 12, exp |-> 1])

C3_Witness ==
    /\ files = <<FileVal123, FileArabic>>
    /\ pc = "done"
    /\ Len(hist) = 2
    /\ hist[1].stack.ok
    /\ hist[2].data = Err("parse float")
    /\ exitCode = 1

\* C5: when the processing of file i fails (the file cannot be opened or read,
\* a value does not parse, the table cannot be built or stacked), the run ends
\* there with an error: no later file is read and the summary file is never
\* created.
C5_FailureAborts ==
    \A i \in 1..Len(hist) : ~hist[i].stack.ok => AbortedAt(i)

C5_Witness ==
    /\ files = <<FileIoErr, FileA>>
    /\ pc = "done"
    /\ Len(hist) = 1
    /\ ~hist[1].lines.ok
    /\ reads = 1

\* Every matched file was read and yielded no field (so also: no file matched).
AllYieldNothing ==
    \A i \in 1..Len(files) :
        i <= Len(hist) /\ hist[i].data.ok /\ hist[i].data.val = <<>>

\* C6: if no file matches, or every file yields no field, the run reports
\* "No data found.", exits with code 0 and creates no summary file; the
\* CsvWriter only ever gets a table that is not empty.
C6_NoDataExit ==
    /\ (pc = "done" /\ AllYieldNothing)
          => message = "No data found." /\ exitCode = 0 /\ ~csvCreated
    /\ (pc = "loop" /\ idx = Len(files) /\ AllYieldNothing) => Height(df) = 0
    /\ message = "No data found." => (pc = "done" /\ exitCode = 0 /\ ~csvCreated)
    /\ csvCreated => (Width(sink) > 0 /\ Height(sink) > 0)

C6_Witness ==
    /\ files = <<FileExcluded, FileNoMarker>>
    /\ pc = "done"
    /\ message = "No data found."
    /\ exitCode = 0
    /\ ~csvCreated

\* The frame the loop accumulated (when every file was stacked).
Accumulated == IF hist = <<>> THEN EmptyFrame ELSE hist[Len(hist)].stack.val

Row(t, j) == { <<t[i].name, t[i].vals[j]>> : i \in 1..Len(t) }
Count(t, r) == Cardinality({ j \in 1..Height(t) : Row(t, j) = r })
SameRows(a, b) ==
    /\ Height(a) = Height(b)
    /\ \A j \in 1..Height(a) : Count(a, Row(a, j)) = Count(b, Row(a, j))

NonDecreasing(v) == \A j \in 1..(Len(v) - 1) : FloatLeq(v[j], v[j + 1])

ColumnVals(t, name) == IF HasColumn(t, name) THEN Column(t, name).vals ELSE <<>>

\* The values of column name in the tables of files 1..k, in that order.
RECURSIVE FromFiles(_, _)
FromFiles(name, k) ==
    IF k = 0 THEN <<>>
    ELSE FromFiles(name, k - 1) \o ColumnVals(hist[k].temp.val, name)

\* A column of a file's table holds the values extracted for its key in the
\* order they were appended (a single value is repeated to the table's height).
AppendOrder(data, t) ==
    \A c \in 1..Len(t) : \E e \in 1..Len(data) :
        /\ data[e].key = t[c].name
        /\ \/ data[e].vals = t[c].vals
           \/ /\ Len(data[e].vals) = 1
              /\ \A j \in 1..Len(t[c].vals) : t[c].vals[j] = data[e].vals[1]

\* C7: the table handed to the CsvWriter has, when it has a TIME(PS) column,
\* its rows non-decreasing in that column and a permutation of the accumulated
\* rows; otherwise its rows are in file order and, within a file, in the order
\* the values were appended.
C7_RowOrder ==
    csvCreated =>
        IF HasColumn(sink, TimeColumn)
        THEN /\ NonDecreasing(Column(sink, TimeColumn).vals)
             /\ SameRows(sink, Accumulated)
        ELSE /\ \A c \in 1..Len(sink) : sink[c].vals = FromFiles(sink[c].name, Len(hist))
             /\ \A k \in 1..Len(hist) : AppendOrder(hist[k].data.val, hist[k].temp.val)

\* Two files with three frames, read as times 2, 1, 1 and written as 1, 1, 2.
C7_Witness ==
    /\ files = <<FileB, FileA>>
    /\ csvCreated
    /\ Column(Accumulated, TimeColumn).vals
           = <<[num |-> 2, exp |-> 0], [num |-> 1, exp |-> 0], [num |-> 1, exp |-> 0]>>
    /\ Column(sink, TimeColumn).vals
           = <<[num |-> 1, exp |-> 0], [num |-> 1, exp |-> 0], [num |-> 2, exp |-> 0]>>

NotTime(name) == name # TimeColumn

\* C8: a column named TIME(PS) is moved to the first place and the other
\* columns keep their order, the key order of the parser; without such a
\* column the order is unchanged.  One file with "TEMP(K) = 300.5" and
\* "TIME(PS) = 1.0" gives the columns TIME(PS), TEMP(K) and the row [1.0, 300.5].
C8_ColumnOrder ==
    csvCreated =>
        /\ \A i, j \in 1..Width(Accumulated) :
              i < j => StrLess(Accumulated[i].name, Accumulated[j].name)
        /\ SelectSeq(Names(sink), NotTime) = SelectSeq(Names(Accumulated), NotTime)
        /\ HasColumn(Accumulated, TimeColumn) => sink[1].name = TimeColumn
        /\ ~HasColumn(Accumulated, TimeColumn) => Names(sink) = Names(Accumulated)
        /\ files = <<FileA>> =>
              sink = << [name |-> TimeColumn, vals |-> <<[num |-> 1, exp |-> 0]>>],
                        [name |-> KeyTemp, vals |-> <<[num |-> 3005, exp |-> 1]>>] >>

C8_Witness ==
    /\ files = <<FileA>>
    /\ csvCreated
    /\ Names(Accumulated) = <<KeyTemp, TimeColumn>>
    /\ Names(sink) = <<TimeColumn, KeyTemp>>

\* Two series of the mapping differ in length.
Ragged(data) == \E i, j \in 1..Len(data) : Len(data[i].vals) # Len(data[j].vals)

\* C9 as stated: a mapping with series of unequal lengths is built into a
\* table without failing.
C9_RaggedTolerated ==
    \A i \in 1..Len(hist) :
        (hist[i].data.ok /\ Ragged(hist[i].data.val)) => hist[i].temp.ok

\* Every series after the first (in key order) has the first one's length, or
\* a single value while the first has more.
Fits(data) ==
    \A i \in 2..Len(data) :
        \/ Len(data[i].vals) = Len(data[1].vals)
        \/ Len(data[i].vals) = 1 /\ Len(data[1].vals) > 1

\* C9 (amended): series of unequal lengths are not tolerated: building the
\* table fails with a shape error, and the run aborts, as soon as a series has
\* another length than the first (in key order), except that a single value
\* is repeated to the length of the first; the columns of a table that was
\* built all have the same length.
C9_RaggedRejected ==
    \A i \in 1..Len(hist) :
        hist[i].data.ok =>
            /\ hist[i].temp.ok <=> Fits(hist[i].data.val)
            /\ ~hist[i].temp.ok => (hist[i].temp = Err("shape mismatch") /\ AbortedAt(i))
            /\ hist[i].temp.ok =>
                  \A c \in 1..Len(hist[i].temp.val) :
                      Len(hist[i].temp.val[c].vals) = Height(hist[i].temp.val)

\* PRESS matched on three lines and VOLUME on two.
C9_Witness ==
    /\ files = <<FileRagged32>>
    /\ pc = "done"
    /\ hist[1].data.ok
    /\ Ragged(hist[1].data.val)
    /\ hist[1].temp = Err("shape mismatch")
    /\ exitCode = 1

====
